---- MODULE Spec2Model ----
(***************************************************************************)
(* List indentation of the remirror list extension                         *)
(* (packages/remirror__extension-list/src/list-command-indent.ts).         *)
(*                                                                         *)
(* A document is the flat token stream that document positions index: an   *)
(* opening token per node (its type, and for a task list item its checked  *)
(* attribute), one token per character of text, and a closing token "/".   *)
(* Position p lies after the first p tokens of the document content, so    *)
(* token i sits between the positions i-1 and i.                           *)
(***************************************************************************)
EXTENDS Integers, Sequences, FiniteSets, TLC

\* Items in the longest flat list of the initial documents.
MaxItems == 4

----------------------------------------------------------------------------
(* Tokens and the schema                                                   *)

Close == "/"
ListTypes == {"ol", "ul", "tl"}
ItemTokens == {"li", "tc", "tu"}

\* list-utils isListNode / isListItemNode (the node's group tag).
isListNode(t) == t \in ListTypes
isListItemNode(t) == t \in ItemTokens

IsOpen(t) == t \in ListTypes \cup ItemTokens \cup {"p"}
IsClose(t) == t = Close
IsChar(t) == ~IsOpen(t) /\ ~IsClose(t)

\* The node type of an opening token: "tc" and "tu" are taskListItem nodes
\* with checked = true / false.
NodeType(t) == IF t \in {"tc", "tu"} THEN "taskListItem" ELSE t

\* The kind of child a token starts, as the content expressions see it.
IsBlock(t) == t = "p" \/ t \in ListTypes

\* Content expressions of the schema: doc "block+", bulletList and
\* orderedList "listItem+", taskList "taskListItem+", list items
\* "paragraph block*", paragraph "text*".
ValidContent(type, kids) ==
  CASE type = "doc" -> Len(kids) >= 1 /\ \A i \in 1..Len(kids) : IsBlock(kids[i])
    [] type \in {"ol", "ul"} -> Len(kids) >= 1 /\ \A i \in 1..Len(kids) : kids[i] = "li"
    [] type = "tl" -> Len(kids) >= 1 /\ \A i \in 1..Len(kids) : kids[i] \in {"tc", "tu"}
    [] type \in ItemTokens ->
         Len(kids) >= 1 /\ kids[1] = "p" /\ \A i \in 1..Len(kids) : IsBlock(kids[i])
    [] type = "p" -> \A i \in 1..Len(kids) : IsChar(kids[i])
    [] OTHER -> FALSE

\* ContentMatch.validEnd of a node type's start state: may the node be empty.
ValidEnd(type) == type = "p"

\* NodeType.compatibleContent: the two types share a content expression.
CompatibleContent(a, b) ==
  \/ NodeType(a) = NodeType(b)
  \/ {NodeType(a), NodeType(b)} \subseteq {"li", "taskListItem"}
  \/ {NodeType(a), NodeType(b)} \subseteq {"ol", "ul"}

----------------------------------------------------------------------------
(* Reading the token stream as a tree                                      *)

RECURSIVE Scan(_, _, _)
Scan(s, j, d) ==
  IF IsClose(s[j]) THEN (IF d = 1 THEN j ELSE Scan(s, j + 1, d - 1))
  ELSE IF IsOpen(s[j]) THEN Scan(s, j + 1, d + 1)
  ELSE Scan(s, j + 1, d)

\* Index of the closing token of the node whose opening token is s[i].
MatchClose(s, i) == Scan(s, i + 1, 1)

\* Node.nodeSize of the node (or character) that starts with token i.
nodeSize(s, i) == IF IsOpen(s[i]) THEN MatchClose(s, i) - i + 1 ELSE 1

\* The tokens of the node that starts with token i.
NodeAt(s, i) == SubSeq(s, i, i + nodeSize(s, i) - 1)

\* Node.content of a node given as tokens.
Content(n) == SubSeq(n, 2, Len(n) - 1)

\* Node.copy(content): same type and attributes, other content.
Copy(n, content) == <<n[1]>> \o content \o <<Close>>

\* The node of type t with the given content.
Node(t, content) == <<t>> \o content \o <<Close>>

RECURSIVE ChildStarts(_, _)
\* Token indices at which the children of a fragment start.
ChildStarts(f, i) ==
  IF i > Len(f) THEN <<>> ELSE <<i>> \o ChildStarts(f, i + nodeSize(f, i))

\* Opening tokens (or characters) of the children of a fragment.
Kids(f) == LET st == ChildStarts(f, 1) IN [k \in 1..Len(st) |-> f[st[k]]]

\* Fragment.childCount and Fragment.child(k) (k counted from 0).
childCount(f) == Len(ChildStarts(f, 1))
child(f, k) == NodeAt(f, ChildStarts(f, 1)[k + 1])

RECURSIVE PathTo(_, _, _, _)
PathTo(s, pos, i, stack) ==
  IF i > pos THEN stack
  ELSE IF IsOpen(s[i]) THEN PathTo(s, pos, i + 1, Append(stack, i))
  ELSE IF IsClose(s[i]) THEN PathTo(s, pos, i + 1, SubSeq(stack, 1, Len(stack) - 1))
  ELSE PathTo(s, pos, i + 1, stack)

\* Node.resolve(pos): the position with the opening tokens of its ancestors,
\* outermost first (the document itself is depth 0 and has no token).
resolve(s, pos) == [pos |-> pos, path |-> PathTo(s, pos, 1, <<>>)]

depth(rp) == Len(rp.path)
\* ResolvedPos.node(d).type
nodeTypeAt(s, rp, d) == IF d = 0 THEN "doc" ELSE s[rp.path[d]]
\* ResolvedPos.start(d), end(d), before(d), after(d)
start(rp, d) == IF d = 0 THEN 0 ELSE rp.path[d]
end(s, rp, d) == IF d = 0 THEN Len(s) ELSE MatchClose(s, rp.path[d]) - 1
before(rp, d) == rp.path[d] - 1
after(s, rp, d) == MatchClose(s, rp.path[d])
\* The content of ResolvedPos.node(d).
contentAt(s, rp, d) == SubSeq(s, start(rp, d) + 1, end(s, rp, d))
\* ResolvedPos.parent.inlineContent
inlineContent(s, rp) == depth(rp) >= 1 /\ s[rp.path[depth(rp)]] = "p"

RECURSIVE CountBefore(_, _, _)
\* Children that start at token i or later and end at or before pos.
CountBefore(s, i, pos) ==
  IF i > Len(s) \/ IsClose(s[i]) \/ i - 1 + nodeSize(s, i) > pos THEN 0
  ELSE 1 + CountBefore(s, i + nodeSize(s, i), pos)

\* ResolvedPos.index(d) at a depth whose node holds block nodes: the index
\* of the child of node(d) that holds the position or follows it.
index(s, rp, d) == CountBefore(s, start(rp, d) + 1, rp.pos)
\* ResolvedPos.indexAfter(d)
indexAfter(s, rp, d) ==
  IF d = depth(rp) THEN index(s, rp, d) ELSE index(s, rp, d) + 1

----------------------------------------------------------------------------
(* The document transformations the command calls (prosemirror-model and   *)
(* prosemirror-transform), as they act on the token stream                 *)

RECURSIVE CommonPrefix(_, _, _)
CommonPrefix(p, q, k) ==
  IF k < Len(p) /\ k < Len(q) /\ p[k + 1] = q[k + 1] THEN CommonPrefix(p, q, k + 1) ELSE k

\* Node.replace(from, to, slice) for a slice closed on both sides. It raises
\* ReplaceError ("Inconsistent open depths") unless both ends are equally
\* deep; it joins the nodes open at from with the nodes open at to, which
\* must have compatible content, and closes every node it rebuilds only if
\* the node's new content is valid. The rebuilt nodes keep the type and the
\* attributes they have on the from side.
ReplaceResolved(s, rf, rt, k, out) ==
  IF depth(rt) # depth(rf) THEN [failed |-> TRUE, doc |-> s]
  ELSE IF \E d \in (k + 1)..depth(rf) : ~CompatibleContent(s[rt.path[d]], s[rf.path[d]])
    THEN [failed |-> TRUE, doc |-> s]
  ELSE IF \E d \in k..depth(rf) :
            ~ValidContent(nodeTypeAt(s, rf, d), Kids(contentAt(out, rf, d)))
    THEN [failed |-> TRUE, doc |-> s]
  ELSE [failed |-> FALSE, doc |-> out]
ReplaceBetween(s, rf, rt, slice) ==
  ReplaceResolved(s, rf, rt, CommonPrefix(rf.path, rt.path, 0),
                  SubSeq(s, 1, rf.pos) \o slice \o SubSeq(s, rt.pos + 1, Len(s)))
Replace(s, from, to, slice) == ReplaceBetween(s, resolve(s, from), resolve(s, to), slice)

\* Slice.insertAt(insert, fragment) for a slice closed on both sides.
insertAt(slice, insert, fragment) ==
  SubSeq(slice, 1, insert) \o fragment \o SubSeq(slice, insert + 1, Len(slice))

\* Node.slice(from, to) is a flat range: both ends have the same parent.
IsFlat(s, from, to) == resolve(s, from).path = resolve(s, to).path

\* ReplaceAroundStep(from, to, gapFrom, gapTo, slice, insert).apply(doc),
\* structure = false.
ReplaceAroundStepApply(s, from, to, gapFrom, gapTo, slice, insert) ==
  IF ~IsFlat(s, gapFrom, gapTo) THEN [failed |-> TRUE, doc |-> s]
  ELSE Replace(s, from, to, insertAt(slice, insert, SubSeq(s, gapFrom + 1, gapTo)))

\* Plausible slip: the old and the new size of the second range exchanged.
ReplaceAroundStepMap_Exchanged(from, to, gapFrom, gapTo, sliceSize, insert) ==
  << <<from, gapFrom - from, insert>>, <<gapTo, sliceSize - insert, to - gapTo>> >>

\* ReplaceAroundStep.getMap(): the ranges <<start, oldSize, newSize>>.
ReplaceAroundStepMap(from, to, gapFrom, gapTo, sliceSize, insert) ==
  << <<from, gapFrom - from, insert>>, <<gapTo, to - gapTo, sliceSize - insert>> >>

\* ReplaceStep(from, to, slice).getMap()
ReplaceStepMap(from, to, sliceSize) == << <<from, to - from, sliceSize>> >>

RECURSIVE MapRanges(_, _, _, _, _)
\* StepMap.map(pos, assoc): walk the ranges in order, diff being the growth
\* of the ranges already passed.
MapRanges(ranges, i, diff, pos, assoc) ==
  IF i > Len(ranges) THEN pos + diff
  ELSE LET st == ranges[i][1]
           oldSize == ranges[i][2]
           newSize == ranges[i][3]
           en == st + oldSize
       IN IF st > pos THEN pos + diff
          ELSE IF pos <= en
            THEN LET side == IF oldSize = 0 THEN assoc
                             ELSE IF pos = st THEN -1
                             ELSE IF pos = en THEN 1 ELSE assoc
                 IN st + diff + (IF side < 0 THEN 0 ELSE newSize)
          ELSE MapRanges(ranges, i + 1, diff + newSize - oldSize, pos, assoc)

StepMapMap(ranges, pos, assoc) == MapRanges(ranges, 1, 0, pos, assoc)

RECURSIVE MappingMap(_, _, _, _)
\* Mapping.map(pos, assoc): the step maps composed in order.
MappingMap(maps, i, pos, assoc) ==
  IF i > Len(maps) THEN pos
  ELSE MappingMap(maps, i + 1, StepMapMap(maps[i], pos, assoc), assoc)

\* tr.mapping.map(pos)
map(maps, pos) == MappingMap(maps, 1, pos, 1)

RECURSIVE coveredDepths(_, _, _, _)
\* coveredDepths($from, $to), deepest first (no node type here is isolating).
coveredDepths(s, rf, rt, d) ==
  IF d < 0 THEN <<>>
  ELSE IF \/ start(rf, d) < rf.pos - (depth(rf) - d)
          \/ end(s, rt, d) > rt.pos + (depth(rt) - d)
    THEN <<>>
  ELSE (IF \/ start(rf, d) = start(rt, d)
           \/ /\ d = depth(rf) /\ d = depth(rt)
              /\ inlineContent(s, rf) /\ inlineContent(s, rt)
              /\ d > 0 /\ start(rt, d - 1) = start(rf, d) - 1
        THEN <<d>> ELSE <<>>) \o coveredDepths(s, rf, rt, d - 1)

Min(a, b) == IF a < b THEN a ELSE b

\* deleteRange: a covered depth whose node can be emptied (the range
\* becomes the node's content), or whose node can be taken out of its
\* parent (the range becomes the node).
CoveredInner(s, rf, covered, i) ==
  \/ (i = Len(covered) /\ covered[i] = 0)
  \/ ValidEnd(NodeType(nodeTypeAt(s, rf, covered[i])))
ParentWithout(s, c, o, rf, rt, d) ==
  ValidContent(nodeTypeAt(s, rf, d),
               Kids(SubSeq(c, 1, before(rf, d + 1) - o)
                    \o SubSeq(c, after(s, rt, d + 1) - o + 1, Len(c))))
CoveredOuter(s, rf, rt, covered, i) ==
  /\ covered[i] > 0
  /\ \/ i = Len(covered)
     \/ ParentWithout(s, contentAt(s, rf, covered[i] - 1), start(rf, covered[i] - 1),
                      rf, rt, covered[i] - 1)
\* deleteRange: a depth at which the range starts at the start of a node
\* and ends after that node.
Widen(s, rf, rt, d) ==
  /\ rf.pos - start(rf, d) = depth(rf) - d
  /\ rt.pos > end(s, rf, d)
  /\ end(s, rt, d) - rt.pos # depth(rt) - d

FirstOf(set) == CHOOSE x \in set : \A y \in set : x <= y

deleteRangeChoice(s, rf, rt, covered, hits, wide) ==
  IF hits # {}
    THEN IF CoveredInner(s, rf, covered, FirstOf(hits))
           THEN <<start(rf, covered[FirstOf(hits)]), end(s, rt, covered[FirstOf(hits)])>>
         ELSE <<before(rf, covered[FirstOf(hits)]), after(s, rt, covered[FirstOf(hits)])>>
  ELSE IF wide # {} THEN <<before(rf, FirstOf(wide)), rt.pos>>
  ELSE <<rf.pos, rt.pos>>

deleteRangeCovered(s, rf, rt, covered) ==
  deleteRangeChoice(s, rf, rt, covered,
                    {i \in 1..Len(covered) :
                       CoveredInner(s, rf, covered, i) \/ CoveredOuter(s, rf, rt, covered, i)},
                    {d \in 1..Min(depth(rf), depth(rt)) : Widen(s, rf, rt, d)})

deleteRangeResolved(s, rf, rt) ==
  deleteRangeCovered(s, rf, rt, coveredDepths(s, rf, rt, Min(depth(rf), depth(rt))))

\* The range Transform.deleteRange(from, to) hands to Transform.delete: it
\* widens the range over the nodes it covers whole.
deleteRangeTarget(s, from, to) == deleteRangeResolved(s, resolve(s, from), resolve(s, to))

\* Selection.near(pos): the start of the first paragraph after pos, else
\* the end of the last paragraph before it, else the whole document.
LastOf(set) == CHOOSE x \in set : \A y \in set : x >= y
nearIn(s, fwd, bwd) ==
  IF fwd # {} THEN [anchor |-> FirstOf(fwd), head |-> FirstOf(fwd)]
  ELSE IF bwd # {} THEN [anchor |-> LastOf(bwd), head |-> LastOf(bwd)]
  ELSE [anchor |-> 0, head |-> Len(s)]
near(s, pos) ==
  nearIn(s, {i \in (pos + 1)..Len(s) : s[i] = "p"},
         {MatchClose(s, i) - 1 : i \in {j \in 1..pos : s[j] = "p" /\ MatchClose(s, j) <= pos}})

\* TextSelection.map(doc, mapping): what Transaction.step does to the
\* transaction's selection.
mapSelectionTo(s, h, a) ==
  IF ~inlineContent(s, resolve(s, h)) THEN near(s, h)
  ELSE [anchor |-> IF inlineContent(s, resolve(s, a)) THEN a ELSE h, head |-> h]
mapSelection(s, sel, ranges) ==
  mapSelectionTo(s, StepMapMap(ranges, sel.head, 1), StepMapMap(ranges, sel.anchor, 1))

\* The exceptions a call can end with.
NoError == "none"
TransformError == "TransformError"
InvalidContent == "RangeError: Invalid content"
OutOfRange == "RangeError: Position out of range"

\* Transform.step(step): the step applied to the transaction, or
\* TransformError when it does not apply. A transaction is the record
\* [doc, docs, maps, selection, error]; docs holds the document before each
\* step, maps is tr.mapping, one entry per step, and error is the exception
\* that ended the work on it, if any.
step(tr, applied, ranges) ==
  IF tr.error # NoError THEN tr
  ELSE IF applied.failed THEN [tr EXCEPT !.error = TransformError]
  ELSE [tr EXCEPT !.doc = applied.doc,
                  !.docs = Append(tr.docs, tr.doc),
                  !.maps = Append(tr.maps, ranges),
                  !.selection = mapSelection(applied.doc, tr.selection, ranges)]

\* Transform.delete(from, to), the range given as <<from, to>>
delete(tr, range) ==
  step(tr, Replace(tr.doc, range[1], range[2], <<>>), ReplaceStepMap(range[1], range[2], 0))

\* Plausible slip: the range is cut out as it stands, neither widened to
\* the node it covers nor validated.
deleteRange_Cut(tr, from, to) ==
  IF tr.error # NoError THEN tr
  ELSE LET out == SubSeq(tr.doc, 1, from) \o SubSeq(tr.doc, to + 1, Len(tr.doc))
           ranges == ReplaceStepMap(from, to, 0)
       IN [tr EXCEPT !.doc = out,
                     !.docs = Append(tr.docs, tr.doc),
                     !.maps = Append(tr.maps, ranges),
                     !.selection = mapSelection(out, tr.selection, ranges)]

\* Transform.deleteRange(from, to)
deleteRange(tr, from, to) == delete(tr, deleteRangeTarget(tr.doc, from, to))

\* Transform.replaceRangeWith(from, to, node), from < to
replaceRangeWith(tr, from, to, node) ==
  step(tr, Replace(tr.doc, from, to, node), ReplaceStepMap(from, to, Len(node)))

RECURSIVE check(_)
\* Node.check(): the node and all its descendants have valid content.
check(n) ==
  /\ ValidContent(n[1], Kids(Content(n)))
  /\ LET c == Content(n)
         st == ChildStarts(c, 1)
     IN \A k \in 1..Len(st) : IsOpen(c[st[k]]) => check(NodeAt(c, st[k]))

----------------------------------------------------------------------------
(* list-command-indent.ts                                                  *)

Max(a, b) == IF a > b THEN a ELSE b

NoRange == [found |-> FALSE]

\* calculateItemRange(selection) of list-commands: $from.blockRange($to,
\* isListNode), the item range of the deepest list that holds both ends.
calculateItemRange(s, rf, rt) ==
  LET top == depth(rf) - (IF inlineContent(s, rf) \/ rf.pos = rt.pos THEN 1 ELSE 0)
      ds == {d \in 1..top : rt.pos <= end(s, rf, d) /\ isListNode(nodeTypeAt(s, rf, d))}
  IN IF ds = {} THEN NoRange
     ELSE LET d == CHOOSE x \in ds : \A y \in ds : x >= y
          IN [found |-> TRUE, depth |-> d,
              start |-> before(rf, d + 1), end |-> after(s, rt, d + 1),
              startIndex |-> index(s, rf, d), endIndex |-> indexAfter(s, rt, d)]

RECURSIVE SizeOfFirst_Inclusive(_, _)
\* Plausible slip: the loop runs to i <= n.
SizeOfFirst_Inclusive(f, n) ==
  IF n < 0 THEN 0 ELSE SizeOfFirst_Inclusive(f, n - 1) + Len(child(f, n))

RECURSIVE SizeOfFirst(_, _)
\* The sum of child(i).nodeSize for i < n.
SizeOfFirst(f, n) == IF n <= 0 THEN 0 ELSE SizeOfFirst(f, n - 1) + Len(child(f, n - 1))

NotFound == [found |-> FALSE]

\* Plausible slip: the node before the list is taken for a list, and its
\* last child for a list item, without looking.
findPreviousItem_Unguarded(s, rf, range) ==
  LET selectedList == NodeAt(s, rf.path[range.depth])
      listIndex == index(s, rf, range.depth - 1)
      listParent == contentAt(s, rf, range.depth - 1)
      previousList == child(listParent, listIndex - 1)
      previousListStart == start(rf, range.depth - 1) + 1 + SizeOfFirst(listParent, listIndex - 1)
      previousItem == child(Content(previousList), childCount(Content(previousList)) - 1)
  IN IF range.startIndex >= 1
       THEN [found |-> TRUE,
             previousItem |-> child(Content(selectedList), range.startIndex - 1),
             previousList |-> selectedList,
             sameList |-> TRUE,
             previousItemStart |->
               start(resolve(s, range.start), range.depth) + 1
                 + SizeOfFirst(Content(selectedList), range.startIndex - 1),
             previousListStart |-> start(resolve(s, range.start), range.depth)]
     ELSE IF listIndex >= 1
       THEN [found |-> TRUE,
             previousItem |-> previousItem,
             previousList |-> previousList,
             sameList |-> FALSE,
             previousItemStart |->
               previousListStart + Len(previousList) - Len(previousItem) - 1,
             previousListStart |-> previousListStart]
     ELSE NotFound

\* findPreviousItem(selectedList, $from, range). sameList says that
\* previousList is the node selectedList itself.
findPreviousItem(s, rf, range) ==
  LET selectedList == NodeAt(s, rf.path[range.depth])
  IN IF range.startIndex >= 1
       THEN LET previousListStart == start(resolve(s, range.start), range.depth)
            IN [found |-> TRUE,
                previousItem |-> child(Content(selectedList), range.startIndex - 1),
                previousList |-> selectedList,
                sameList |-> TRUE,
                previousItemStart |->
                  previousListStart + 1
                    + SizeOfFirst(Content(selectedList), range.startIndex - 1),
                previousListStart |-> previousListStart]
     ELSE LET listIndex == index(s, rf, range.depth - 1)
          IN IF listIndex >= 1
               THEN LET listParent == contentAt(s, rf, range.depth - 1)
                        listParentStart == start(rf, range.depth - 1)
                        previousList == child(listParent, listIndex - 1)
                    IN IF ~isListNode(previousList[1]) THEN NotFound
                       ELSE LET previousListStart ==
                                  listParentStart + 1 + SizeOfFirst(listParent, listIndex - 1)
                                previousItem ==
                                  child(Content(previousList),
                                        childCount(Content(previousList)) - 1)
                            IN IF ~isListItemNode(previousItem[1]) THEN NotFound
                               ELSE [found |-> TRUE,
                                     previousItem |-> previousItem,
                                     previousList |-> previousList,
                                     sameList |-> FALSE,
                                     previousItemStart |->
                                       previousListStart + Len(previousList)
                                         - Len(previousItem) - 1,
                                     previousListStart |-> previousListStart]
             ELSE NotFound

RECURSIVE Closes(_)
Closes(n) == IF n <= 0 THEN <<>> ELSE <<Close>> \o Closes(n - 1)

\* Node.slice(from, to).content for a range that starts between two children
\* of the node both ends share: the nodes cut open at to are closed.
sliceContent(s, from, to) ==
  IF from = to THEN <<>>
  ELSE SubSeq(s, from + 1, to) \o Closes(depth(resolve(s, to)) - depth(resolve(s, from)))

\* Plausible slip: the range is not split, the whole items are selected.
sliceSelectedItems_WholeItems(s, rt, range) ==
  [selected |-> sliceContent(s, range.start, range.end), unselected |-> <<>>]

\* sliceSelectedItems(doc, $to, range); unselected is the content of
\* unselectedSlice, empty when there is none.
sliceSelectedItems(s, rt, range) ==
  LET mid == IF depth(rt) >= range.depth + 2 THEN end(s, rt, range.depth + 2)
             ELSE range.end - 1
  IN IF mid + 1 >= range.end
       THEN [selected |-> sliceContent(s, range.start, range.end), unselected |-> <<>>]
     ELSE [selected |-> sliceContent(s, range.start, mid),
           unselected |-> sliceContent(s, mid + 1, range.end - 1)]

\* Plausible slip: a node is compared with a node type, which it never equals.
sameListType_Never(previousList, selectedList) == FALSE

\* previousList.type === selectedList.type
sameListType(previousList, selectedList) == NodeType(previousList[1]) = NodeType(selectedList[1])

\* Plausible slip: the new list is always a bullet list.
wrapInNewList_BulletList(tr, range, selectedList) ==
  LET newListSlice == <<"ul", Close>>
  IN step(tr,
          ReplaceAroundStepApply(tr.doc, range.start - 1, range.end - 1,
                                 range.start, range.end, newListSlice, 1),
          ReplaceAroundStepMap(range.start - 1, range.end - 1,
                               range.start, range.end, Len(newListSlice), 1))

\* Plausible slip: the end of the range is taken from the first item.
wrapInNewList_FirstItem(tr, range, selectedList) ==
  LET newListSlice == Copy(selectedList, <<>>)
      firstEnd == range.start + nodeSize(tr.doc, range.start + 1)
  IN step(tr,
          ReplaceAroundStepApply(tr.doc, range.start - 1, firstEnd - 1,
                                 range.start, firstEnd, newListSlice, 1),
          ReplaceAroundStepMap(range.start - 1, firstEnd - 1,
                               range.start, firstEnd, Len(newListSlice), 1))

\* Plausible slip: the step runs to the end of the list, not of the range.
wrapInNewList_RestOfList(tr, range, selectedList) ==
  LET newListSlice == Copy(selectedList, <<>>)
      listEnd == MatchClose(tr.doc, resolve(tr.doc, range.start).path[range.depth]) - 1
  IN step(tr,
          ReplaceAroundStepApply(tr.doc, range.start - 1, listEnd - 1,
                                 range.start, listEnd, newListSlice, 1),
          ReplaceAroundStepMap(range.start - 1, listEnd - 1,
                               range.start, listEnd, Len(newListSlice), 1))

\* The same-type branch: the ReplaceAroundStep over the item range.
wrapInNewList(tr, range, selectedList) ==
  LET newListSlice == Copy(selectedList, <<>>)
  IN step(tr,
          ReplaceAroundStepApply(tr.doc, range.start - 1, range.end - 1,
                                 range.start, range.end, newListSlice, 1),
          ReplaceAroundStepMap(range.start - 1, range.end - 1,
                               range.start, range.end, Len(newListSlice), 1))

\* Plausible slip: the unselected rest is not appended.
newPreviousItem_NoRemainder(previousItem, selectedList, sl) ==
  Copy(previousItem, Content(previousItem) \o Copy(selectedList, sl.selected))

\* newPreviousItem: the previous item with the new list of the selected
\* items and the unselected rest appended to its content.
newPreviousItem(previousItem, selectedList, sl) ==
  Copy(previousItem, Content(previousItem) \o Copy(selectedList, sl.selected) \o sl.unselected)

\* newPreviousItem.check(), then tr.replaceRangeWith(previousItemStart - 1,
\* previousItemEnd + 1, newPreviousItem), on the transaction that has
\* deleted the range.
replacePreviousItem(deleted, prev, item) ==
  IF deleted.error # NoError THEN deleted
  ELSE IF ~check(item) THEN [deleted EXCEPT !.error = InvalidContent]
  ELSE replaceRangeWith(deleted, prev.previousItemStart - 1,
                        prev.previousItemStart + Len(prev.previousItem) - 2 + 1, item)

\* The other branch: the previous item rebuilt from copies. The range is
\* deleted first, then the new previous item is checked, then it replaces
\* the old one.
rebuildPreviousItem(tr, rt, range, selectedList, prev) ==
  replacePreviousItem(deleteRange(tr, range.start, range.end), prev,
                      newPreviousItem(prev.previousItem, selectedList,
                                      sliceSelectedItems(tr.doc, rt, range)))

\* Plausible slip: the positions are kept on both branches.
newSelection_Unshifted(sameList, from, to) == [anchor |-> from, head |-> to]

\* Plausible slip: the positions are shifted on both branches.
newSelection_Shifted(sameList, from, to) == [anchor |-> from - 2, head |-> to - 2]

\* Plausible slip: the selection is made from $from alone.
newSelection_Collapsed(sameList, from, to) ==
  IF sameList THEN [anchor |-> from, head |-> from]
  ELSE [anchor |-> from - 2, head |-> from - 2]

\* Plausible slip: the shift counts one token, not two.
newSelection_OneToken(sameList, from, to) ==
  IF sameList THEN [anchor |-> from, head |-> to]
  ELSE [anchor |-> from - 1, head |-> to - 1]

\* The selection indentList sets at the end.
newSelection(sameList, from, to) ==
  IF sameList THEN [anchor |-> from, head |-> to]
  ELSE [anchor |-> from - 2, head |-> to - 2]

\* Transaction.setSelection(TextSelection.create(tr.doc, anchor, head));
\* resolving a position outside the document raises RangeError.
setSelection(tr, sel) ==
  IF tr.error # NoError THEN tr
  ELSE IF \E x \in {sel.anchor, sel.head} : x < 0 \/ x > Len(tr.doc)
    THEN [tr EXCEPT !.error = OutOfRange]
  ELSE [tr EXCEPT !.selection = sel]

\* What a call of indentList leaves: its return value ("true" / "false"),
\* or "threw" when it ended by an exception, and the transaction as it
\* then is.
Return(value, tr) == [result |-> IF tr.error # NoError THEN "threw" ELSE value, tr |-> tr]

\* Plausible slip: the function ends without "return true".
moveSelectedItems_NoReturn(tr, rf, rt, range, selectedList, prev) ==
  LET moved == IF sameListType(prev.previousList, selectedList)
                 THEN wrapInNewList(tr, range, selectedList)
               ELSE rebuildPreviousItem(tr, rt, range, selectedList, prev)
  IN Return("false", setSelection(moved, newSelection(prev.sameList, rf.pos, rt.pos)))

\* indentList from the point where the previous item is known: the items
\* are moved in one of the two ways, the selection is set, and the result
\* is true.
moveSelectedItems(tr, rf, rt, range, selectedList, prev) ==
  LET moved == IF sameListType(prev.previousList, selectedList)
                 THEN wrapInNewList(tr, range, selectedList)
               ELSE rebuildPreviousItem(tr, rt, range, selectedList, prev)
  IN Return("true", setSelection(moved, newSelection(prev.sameList, rf.pos, rt.pos)))

\* indentList once the item range is there.
indentRange(tr, rf, rt, range, selectedList) ==
  IF ~isListNode(selectedList[1]) THEN Return("false", tr)
  ELSE IF ~findPreviousItem(tr.doc, rf, range).found THEN Return("false", tr)
  ELSE moveSelectedItems(tr, rf, rt, range, selectedList,
                         findPreviousItem(tr.doc, rf, range))

\* tr.doc.resolve(range.start).node()
selectedListOf(s, rs) == IF depth(rs) = 0 THEN <<"doc">> \o s \o <<Close>>
                         ELSE NodeAt(s, rs.path[depth(rs)])

indentSelection(tr, rf, rt, range) ==
  IF ~range.found THEN Return("false", tr)
  ELSE indentRange(tr, rf, rt, range, selectedListOf(tr.doc, resolve(tr.doc, range.start)))

\* indentList(tr)
indentList(tr) ==
  indentSelection(tr, resolve(tr.doc, Min(tr.selection.anchor, tr.selection.head)),
                  resolve(tr.doc, Max(tr.selection.anchor, tr.selection.head)),
                  calculateItemRange(
                    tr.doc, resolve(tr.doc, Min(tr.selection.anchor, tr.selection.head)),
                    resolve(tr.doc, Max(tr.selection.anchor, tr.selection.head))))

----------------------------------------------------------------------------
(* list-command-dedent.ts, after section 4.3 of the specification          *)

\* The selected list has to be the child of a list item that is the child
\* of another list: the opening tokens of the three nodes.
findParentItem(s, rf, range) ==
  IF range.depth < 3 THEN NotFound
  ELSE IF ~isListItemNode(s[rf.path[range.depth - 1]]) THEN NotFound
  ELSE IF ~isListNode(s[rf.path[range.depth - 2]]) THEN NotFound
  ELSE [found |-> TRUE, list |-> rf.path[range.depth],
        item |-> rf.path[range.depth - 1], parentList |-> rf.path[range.depth - 2]]

\* The content of the parent item, split: what comes before the nested
\* list, the items of the list before, in and after the range, and what
\* comes after the list.
splitParentItem(s, range, parent) ==
  [before |-> SubSeq(s, parent.item + 1, parent.list - 1),
   kept |-> SubSeq(s, parent.list + 1, range.start)
              \o SubSeq(s, range.end + 1, MatchClose(s, parent.list) - 1),
   selected |-> SubSeq(s, range.start + 1, range.end),
   firstEnd |-> MatchClose(s, range.start + 1),
   trailing |-> SubSeq(s, MatchClose(s, parent.list) + 1, MatchClose(s, parent.item) - 1)]

\* The parent item without the selected items: a nested list left empty is
\* removed, and the content after it then leaves with the promoted items.
remainingParentItem(s, parent, parts) ==
  Node(s[parent.item],
       parts.before \o (IF parts.kept = <<>> THEN <<>>
                        ELSE Node(s[parent.list], parts.kept) \o parts.trailing))

\* The promoted items: the content that came after a nested list that is
\* removed goes to the end of the first of them.
promotedItems(parts, firstSize) ==
  IF parts.kept = <<>>
    THEN SubSeq(parts.selected, 1, firstSize - 1) \o parts.trailing
           \o SubSeq(parts.selected, firstSize, Len(parts.selected))
  ELSE parts.selected

\* Plausible slip: a position is moved by the size of the old parent item.
promotedPosition_OldSize(s, range, parent, parts, pos) ==
  parent.item - 1 + nodeSize(s, parent.item) + (pos - range.start)

\* Where a position of the selected range is after the move.
promotedPosition(s, range, parent, parts, pos) ==
  parent.item - 1 + Len(remainingParentItem(s, parent, parts)) + (pos - range.start)
    + (IF parts.kept = <<>> /\ pos >= parts.firstEnd THEN Len(parts.trailing) ELSE 0)

\* The parent list with the candidate content in the place of the parent
\* item has to be valid, or nothing is done.
promotedIsValid(s, parent, candidate) ==
  check(Node(s[parent.parentList],
             SubSeq(s, parent.parentList + 1, parent.item - 1) \o candidate
               \o SubSeq(s, MatchClose(s, parent.item) + 1,
                         MatchClose(s, parent.parentList) - 1)))

\* The parent item is replaced by what remains of it and the promoted
\* items, in one step, and the selection is set to where it was in the
\* promoted items.
promote(tr, range, parent, parts, candidate) ==
  IF ~promotedIsValid(tr.doc, parent, candidate) THEN Return("false", tr)
  ELSE Return("true",
              setSelection(
                replaceRangeWith(tr, parent.item - 1, MatchClose(tr.doc, parent.item),
                                 candidate),
                [anchor |-> promotedPosition(tr.doc, range, parent, parts,
                                             tr.selection.anchor),
                 head |-> promotedPosition(tr.doc, range, parent, parts,
                                           tr.selection.head)]))

liftItems(tr, range, parent, parts) ==
  promote(tr, range, parent, parts,
          remainingParentItem(tr.doc, parent, parts)
            \o promotedItems(parts, parts.firstEnd - range.start))

dedentRange(tr, range, parent) ==
  IF ~parent.found THEN Return("false", tr)
  ELSE liftItems(tr, range, parent, splitParentItem(tr.doc, range, parent))

dedentSelection(tr, rf, range) ==
  IF ~range.found THEN Return("false", tr)
  ELSE dedentRange(tr, range, findParentItem(tr.doc, rf, range))

\* dedentList(tr)
dedentList(tr) ==
  dedentSelection(tr, resolve(tr.doc, Min(tr.selection.anchor, tr.selection.head)),
                  calculateItemRange(
                    tr.doc, resolve(tr.doc, Min(tr.selection.anchor, tr.selection.head)),
                    resolve(tr.doc, Max(tr.selection.anchor, tr.selection.head))))

----------------------------------------------------------------------------
(* The editor                                                              *)

VARIABLES
  doc,         \* view.state.doc
  selection,   \* view.state.selection, [anchor, head]
  pre,         \* the document and the selection the last command started from
  tr,          \* the transaction of the last command
  result,      \* what indentList did in the last command, "none" before any
  dispatched,  \* the calls of dispatch in the last command, in order
  returned,    \* what the last command returned, "threw" when it threw
  command,     \* the last command: its name, and whether it got a dispatch
  prior        \* the command before the last: the document it started
               \* from, its name, what it did and whether it got a dispatch

vars == <<doc, selection, pre, tr, result, dispatched, returned, command, prior>>

NoCommand == [name |-> "none", hasDispatch |-> FALSE]
\* The last command as the next one remembers it.
Last == [doc |-> pre.doc, selection |-> pre.selection, name |-> command.name,
         result |-> result, hasDispatch |-> command.hasDispatch]

\* state.tr: a transaction with no step, on the state's document and
\* selection.
NewTransaction(s, sel) ==
  [doc |-> s, docs |-> <<>>, maps |-> <<>>, selection |-> sel, error |-> NoError]

\* Positions inside the text of a paragraph.
TextPositions(s) == {p \in 0..Len(s) : inlineContent(s, resolve(s, p))}

Char(k, j) == "t" \o ToString(k) \o ToString(j)
\* The paragraph number k: its text is two characters (one when k is even)
\* that no other paragraph has.
P(k) ==
  <<"p">> \o (IF k % 2 = 1 THEN <<Char(k, 1), Char(k, 2)>> ELSE <<Char(k, 1)>>) \o <<Close>>

\* The list types with the items the tests fill them with
\* (ordered, unordered, task with checked items, task with unchecked items).
Kinds == { <<"ol", "li">>, <<"ul", "li">>, <<"tl", "tc">>, <<"tl", "tu">> }
\* One kind per list type, for the documents that combine two lists.
ListKinds == { <<"ol", "li">>, <<"ul", "li">>, <<"tl", "tu">> }

RECURSIVE Items(_, _, _)
\* n items, each one paragraph, numbered from k.
Items(item, n, k) ==
  IF n = 0 THEN <<>> ELSE Node(item, P(k)) \o Items(item, n - 1, k + 1)

FlatList(kind, n, k) == Node(kind[1], Items(kind[2], n, k))

\* The documents the editor starts with (editor.add(doc) of the tests): a
\* flat list; a list between two paragraphs; two sibling lists, the second
\* one starting with an item of two paragraphs; a list whose first item
\* already ends with a nested list; an item that holds two lists; two
\* sibling lists of two items each.
InitialDocs ==
  {FlatList(kind, n, 1) : kind \in Kinds, n \in 3..MaxItems}
  \cup {P(8) \o FlatList(kind, 3, 1) \o P(9) : kind \in Kinds}
  \cup {FlatList(k1, 1, 1) \o Node(k2[1], Node(k2[2], P(2) \o P(3)) \o Items(k2[2], 1, 4)) :
          k1 \in ListKinds, k2 \in ListKinds}
  \cup {Node(k1[1], Node(k1[2], P(1) \o FlatList(k2, 1, 2)) \o Items(k1[2], 1, 3)) :
          k1 \in ListKinds, k2 \in ListKinds}
  \cup {Node("ul", Node("li", P(1) \o FlatList(k1, 1, 2) \o FlatList(k2, 2, 3))) :
          k1 \in ListKinds, k2 \in ListKinds}
  \cup {FlatList(k1, 2, 5) \o FlatList(k2, 2, 1) : k1 \in ListKinds, k2 \in ListKinds}

\* The text selections of a document, forward and backward.
TextSelections(s) ==
  {[anchor |-> a, head |-> h] : a \in TextPositions(s), h \in TextPositions(s)}

\* editor.add(doc): the document comes with its selection (the <cursor>,
\* <start> and <end> tags of the tests).
Init ==
  /\ doc \in InitialDocs
  /\ selection \in TextSelections(doc)
  /\ pre = [doc |-> doc, selection |-> selection]
  /\ tr = NewTransaction(doc, selection)
  /\ result = "none"
  /\ dispatched = <<>>
  /\ returned = "none"
  /\ command = NoCommand
  /\ prior = [doc |-> doc, selection |-> selection, name |-> "none",
              result |-> "none", hasDispatch |-> FALSE]

\* Plausible slip: dispatch is called whatever indentList returned.
dispatchIf_Always(r, hasDispatch) ==
  /\ returned' = IF r.result = "threw" THEN "threw" ELSE "true"
  /\ pre' = [doc |-> doc, selection |-> selection]
  /\ result' = r.result
  /\ tr' = r.tr
  /\ dispatched' = IF r.result # "threw" /\ hasDispatch THEN <<"scrollIntoView">> ELSE <<>>
  /\ doc' = IF r.result # "threw" /\ hasDispatch THEN r.tr.doc ELSE doc
  /\ selection' = IF r.result # "threw" /\ hasDispatch THEN r.tr.selection ELSE selection

\* if (indentList(tr)) dispatch?.(tr.scrollIntoView()); return true, r being
\* what the call of indentList left. A dispatched transaction becomes the
\* editor's state; an exception leaves the state as it was and nothing is
\* returned.
dispatchIf(r, hasDispatch) ==
  /\ returned' = IF r.result = "threw" THEN "threw" ELSE "true"
  /\ pre' = [doc |-> doc, selection |-> selection]
  /\ result' = r.result
  /\ tr' = r.tr
  /\ dispatched' = IF r.result = "true" /\ hasDispatch THEN <<"scrollIntoView">> ELSE <<>>
  /\ doc' = IF r.result = "true" /\ hasDispatch THEN r.tr.doc ELSE doc
  /\ selection' = IF r.result = "true" /\ hasDispatch THEN r.tr.selection ELSE selection

\* indentListCommand({ tr, dispatch }) on the transaction of the current
\* state: hasDispatch says whether the caller gave a dispatch callback.
indentListCommand(hasDispatch) ==
  /\ dispatchIf(indentList(NewTransaction(doc, selection)), hasDispatch)
  /\ command' = [name |-> "indent", hasDispatch |-> hasDispatch]
  /\ prior' = Last

Next == \E hasDispatch \in BOOLEAN : indentListCommand(hasDispatch)

Spec == Init /\ [][Next]_vars

\* dedentListCommand({ tr, dispatch }), which has the shape of
\* indentListCommand.
dedentListCommand(hasDispatch) ==
  /\ dispatchIf(dedentList(NewTransaction(doc, selection)), hasDispatch)
  /\ command' = [name |-> "dedent", hasDispatch |-> hasDispatch]
  /\ prior' = Last

\* The editor with both commands.
NextBoth ==
  \/ \E hasDispatch \in BOOLEAN : indentListCommand(hasDispatch)
  \/ \E hasDispatch \in BOOLEAN : dedentListCommand(hasDispatch)

\* The documents the editor with both commands starts with: the flat
\* lists of the tests, whose nested forms the indent command makes, and the
\* two sibling lists.
BothDocs ==
  {FlatList(kind, n, 1) : kind \in Kinds, n \in 3..MaxItems}
  \cup {FlatList(k1, 1, 1) \o Node(k2[1], Node(k2[2], P(2) \o P(3)) \o Items(k2[2], 1, 4)) :
          k1 \in ListKinds, k2 \in ListKinds}

InitBoth ==
  /\ doc \in BothDocs
  /\ selection \in TextSelections(doc)
  /\ pre = [doc |-> doc, selection |-> selection]
  /\ tr = NewTransaction(doc, selection)
  /\ result = "none"
  /\ dispatched = <<>>
  /\ returned = "none"
  /\ command = NoCommand
  /\ prior = [doc |-> doc, selection |-> selection, name |-> "none",
              result |-> "none", hasDispatch |-> FALSE]

SpecBoth == InitBoth /\ [][NextBoth]_vars

\* The documents of the second specification did not pass Node.check(): the
\* editor got them as nodes built from JSON, which is not validated. A list
\* whose only item holds a nested list and no paragraph is followed by
\* another list.
UnvalidatedDocs ==
  {Node(k1[1], Node(k1[2], FlatList(k3, 1, 1))) \o FlatList(k2, 2, 2) :
     k1 \in Kinds, k2 \in Kinds, k3 \in ListKinds}

InitUnvalidated ==
  /\ doc \in UnvalidatedDocs
  /\ selection \in TextSelections(doc)
  /\ pre = [doc |-> doc, selection |-> selection]
  /\ tr = NewTransaction(doc, selection)
  /\ result = "none"
  /\ dispatched = <<>>
  /\ returned = "none"
  /\ command = NoCommand
  /\ prior = [doc |-> doc, selection |-> selection, name |-> "none",
              result |-> "none", hasDispatch |-> FALSE]

SpecUnvalidated == InitUnvalidated /\ [][Next]_vars

----------------------------------------------------------------------------
(* The claims. They speak of the last command: pre is the state it started *)
(* from, tr the transaction it worked on, result what indentList did.      *)

Ran == result # "none"
From == Min(pre.selection.anchor, pre.selection.head)
To == Max(pre.selection.anchor, pre.selection.head)
IsCursor == pre.selection.anchor = pre.selection.head

\* The position lies in a paragraph that is a child of a list item.
InItemText(s, p) ==
  LET rp == resolve(s, p)
  IN depth(rp) >= 3 /\ isListItemNode(s[rp.path[depth(rp) - 1]])
\* The opening tokens of that item and of its list, and the item's place in
\* the list, counted from 1.
ItemOf(s, p) == LET rp == resolve(s, p) IN rp.path[depth(rp) - 1]
ListOf(s, p) == LET rp == resolve(s, p) IN rp.path[depth(rp) - 2]
RECURSIVE PlaceIn(_, _, _)
PlaceIn(s, i, target) == IF i = target THEN 1 ELSE 1 + PlaceIn(s, i + nodeSize(s, i), target)
PlaceOf(s, p) == PlaceIn(s, ListOf(s, p) + 1, ItemOf(s, p))
\* The offset of a text position in its paragraph.
TextOffset(s, p) == LET rp == resolve(s, p) IN p - rp.path[depth(rp)]

\* The document with the items from token i to token e (the opening token of
\* the first, the closing token of the last) made the content of a new list
\* of type t that is the last child of the item just before them.
Nested(s, i, e, t) ==
  SubSeq(s, 1, i - 2) \o Node(t, SubSeq(s, i, e)) \o <<Close>> \o SubSeq(s, e + 1, Len(s))

C1_Case == Ran /\ IsCursor /\ InItemText(pre.doc, From) /\ PlaceOf(pre.doc, From) >= 2
C1_Expected ==
  LET s == pre.doc
      i == ItemOf(s, From)
  IN Nested(s, i, MatchClose(s, i), s[ListOf(s, From)])

\* C1: with the cursor in the text of item k >= 2 of a list of any type, the
\* command yields the document in which item k is the only item of a new
\* list of the list's type, the last child of item k-1, everything else as
\* it was, and the cursor is in the moved item at the text offset it had.
C1_SimpleIndent ==
  C1_Case =>
    /\ result = "true"
    /\ tr.doc = C1_Expected
    /\ tr.selection.anchor = tr.selection.head
    /\ InItemText(tr.doc, tr.selection.head)
    /\ NodeAt(tr.doc, ItemOf(tr.doc, tr.selection.head)) = NodeAt(pre.doc, ItemOf(pre.doc, From))
    /\ TextOffset(tr.doc, tr.selection.head) = TextOffset(pre.doc, From)
    /\ dispatched # <<>> => doc = C1_Expected /\ selection = tr.selection

\* C1 happens: a task list with checked items, the cursor at the end of the
\* text of item 3, the transaction dispatched.
C1_Witness ==
  /\ C1_Case /\ result = "true" /\ dispatched # <<>>
  /\ pre.doc[ItemOf(pre.doc, From)] = "tc"
  /\ PlaceOf(pre.doc, From) = 3
  /\ TextOffset(pre.doc, From) = 2

C2_Case ==
  /\ Ran
  /\ LET s == pre.doc
         rf == resolve(s, From)
         rt == resolve(s, To)
         k == CommonPrefix(rf.path, rt.path, 0)
     IN /\ k >= 1 /\ isListNode(s[rf.path[k]])
        /\ rf.path[k + 1] # rf.path[k] + 1
C2_First == LET rf == resolve(pre.doc, From)
            IN rf.path[CommonPrefix(rf.path, resolve(pre.doc, To).path, 0) + 1]
C2_Last == LET rt == resolve(pre.doc, To)
           IN rt.path[CommonPrefix(resolve(pre.doc, From).path, rt.path, 0) + 1]
C2_Expected ==
  LET s == pre.doc
      rf == resolve(s, From)
  IN Nested(s, C2_First, MatchClose(s, C2_Last),
            s[rf.path[CommonPrefix(rf.path, resolve(s, To).path, 0)]])

\* C2: with the selection starting in item i >= 2 of a list and ending in a
\* later item j of that list, the items i..j become, in their order and
\* unchanged, the content of one new list of the list's type inside item
\* i-1, and the items after j stay where they were.
C2_MultiItemIndent ==
  C2_Case =>
    /\ result = "true"
    /\ tr.doc = C2_Expected
    /\ dispatched # <<>> => doc = C2_Expected

\* C2 happens: items 2 and 3 of a list of four are selected and moved, and
\* item 4 follows them in the list.
C2_Witness ==
  /\ C2_Case /\ result = "true" /\ dispatched # <<>>
  /\ PlaceIn(pre.doc, 2, C2_First) = 2 /\ PlaceIn(pre.doc, 2, C2_Last) = 3
  /\ isListItemNode(pre.doc[MatchClose(pre.doc, C2_Last) + 1])

\* Both ends of the selection are in paragraphs of the first item of a list
\* at the top of the document, and the node before that list, if there is
\* one, is no list.
C3_Case ==
  /\ Ran
  /\ LET s == pre.doc
         rf == resolve(s, From)
         rt == resolve(s, To)
     IN /\ depth(rf) = 3 /\ depth(rt) = 3
        /\ isListNode(s[rf.path[1]])
        /\ rf.path[2] = rf.path[1] + 1 /\ rt.path[2] = rf.path[2]
        /\ ~\E i \in 1..Len(s) :
             isListNode(s[i]) /\ MatchClose(s, i) + 1 = rf.path[1]

\* C3: indenting the first item of a top-level list with no list before it
\* leaves the document of the editor, and that of the transaction, equal to
\* the document before the command.
C3_FirstItemUnchanged ==
  C3_Case => doc = pre.doc /\ tr.doc = pre.doc

\* C3 happens: the first item of a task list that follows a paragraph.
C3_Witness ==
  C3_Case /\ pre.doc[1] = "p" /\ pre.doc[resolve(pre.doc, From).path[1]] = "tl"

\* C4: when indentList returns false the transaction has no step and the
\* selection it had.
C4_FalseLeavesTransaction ==
  result = "false" =>
    tr.maps = <<>> /\ tr.doc = pre.doc /\ tr.selection = pre.selection

\* C4 happens: there is an item range and no previous item.
C4_Witness ==
  /\ result = "false"
  /\ calculateItemRange(pre.doc, resolve(pre.doc, From), resolve(pre.doc, To)).found

\* C5: indentList ends by returning true or false; when it returns false
\* the document of the transaction is the one it started with, and a
\* transaction with a step in it means indentList returned true.
C5_AllOrNothing ==
  Ran =>
    /\ result \in {"true", "false"}
    /\ result = "false" => tr.doc = pre.doc
    /\ tr.maps # <<>> => result = "true"

\* What indentList computes from the state before the command.
PreRange == calculateItemRange(pre.doc, resolve(pre.doc, From), resolve(pre.doc, To))
PreSelectedList == NodeAt(pre.doc, resolve(pre.doc, PreRange.start).path[PreRange.depth])
PrePrevious == findPreviousItem(pre.doc, resolve(pre.doc, From), PreRange)
\* The command took the branch that rebuilds the previous item.
CrossTypePath ==
  /\ Ran /\ PreRange.found /\ PrePrevious.found
  /\ ~sameListType(PrePrevious.previousList, PreSelectedList)
\* The previous item that branch assembles.
C6_Assembled ==
  newPreviousItem(PrePrevious.previousItem, PreSelectedList,
                  sliceSelectedItems(pre.doc, resolve(pre.doc, To), PreRange))

\* C6: when the previous item assembled in the cross-type branch violates
\* the content model, indentList returns false and the transaction has no
\* step.
C6_InvalidItemRejected ==
  (CrossTypePath /\ ~check(C6_Assembled)) => result = "false" /\ tr.maps = <<>>

C8_PreviousItem ==
  CHOOSE i \in 1..Len(pre.doc) :
    isListItemNode(pre.doc[i]) /\ MatchClose(pre.doc, i) + 1 = ItemOf(pre.doc, From)

\* C8: in an indent inside one list, with the cursor q in the text of the
\* moved item, every text position p < q of the previous item or of the
\* moved item is mapped strictly before q: map(p) < map(q).
C8_StrictOrder ==
  (C1_Case /\ result = "true") =>
    \A p \in TextPositions(pre.doc) :
      (C8_PreviousItem <= p /\ p < From) => map(tr.maps, p) < map(tr.maps, From)

\* C8 happens: the cursor is behind the first character of the moved item,
\* so there are positions before it in the previous and in the moved item.
C8_Witness ==
  /\ C1_Case /\ result = "true" /\ TextOffset(pre.doc, From) >= 1
  /\ tr.maps # <<>>

Lists(s) == {i \in 1..Len(s) : isListNode(s[i])}
\* The range is all the items of a list that follows a list of another type.
C9_WholeList ==
  /\ CrossTypePath
  /\ PreRange.startIndex = 0
  /\ PreRange.end - PreRange.start = Len(PreSelectedList) - 2

\* C9: after a successful indent every list has a list item as its first
\* child; and when the range was every item of its list, the document has
\* as many lists as before: the source list is gone, the new one is there.
C9_NoEmptyList ==
  result = "true" =>
    /\ \A i \in Lists(tr.doc) : isListItemNode(tr.doc[i + 1])
    /\ C9_WholeList => Cardinality(Lists(tr.doc)) = Cardinality(Lists(pre.doc))

\* C9 happens: all the items of a list are moved into the last item of the
\* list of another type before it.
C9_Witness ==
  result = "true" /\ C9_WholeList /\ Len(tr.maps) = 2

\* The item before the cursor's ends with a nested list of the type of the
\* list the cursor's item is in.
C10_Case ==
  /\ C1_Case /\ result = "true"
  /\ LET s == pre.doc
         i == ItemOf(s, From)
     IN \E l \in Lists(s) : MatchClose(s, l) = i - 2 /\ s[l] = s[ListOf(s, From)]

\* C10: when the previous item already ends with a nested list of the same
\* type, the moved item becomes the last item of that list: the previous
\* item does not get a second list next to it.
C10_AppendedToExistingList ==
  C10_Case =>
    LET s == pre.doc
        i == ItemOf(s, From)
        e == MatchClose(s, i)
    IN tr.doc = SubSeq(s, 1, i - 3) \o SubSeq(s, i, e) \o <<Close, Close>>
                  \o SubSeq(s, e + 1, Len(s))

\* The selected range starts with the first item of a list, and the node
\* just before that list is a list whose last item is the previous item.
\* SourceList is the opening token of the list of the range, TargetItem that
\* of the previous item.
SourceList == resolve(pre.doc, From).path[PreRange.depth]
FromSiblingList ==
  /\ Ran /\ PreRange.found /\ PreRange.startIndex = 0
  /\ SourceList >= 4
  /\ pre.doc[SourceList - 1] = Close /\ pre.doc[SourceList - 2] = Close
  /\ \E l \in Lists(pre.doc) : MatchClose(pre.doc, l) = SourceList - 1
TargetList == CHOOSE l \in Lists(pre.doc) : MatchClose(pre.doc, l) = SourceList - 1
TargetItem ==
  CHOOSE i \in 1..Len(pre.doc) :
    isListItemNode(pre.doc[i]) /\ MatchClose(pre.doc, i) = SourceList - 2
\* The item and the block (child of that item) that hold the selection end.
LastItem == resolve(pre.doc, To).path[PreRange.depth + 1]
LastBlock == resolve(pre.doc, To).path[PreRange.depth + 2]

\* The document after the items of the range went under TargetItem: the
\* text before the end of TargetItem's content, a new list of the type of
\* the source list with the selected items, the last of them cut after
\* LastBlock, then the blocks of that item after LastBlock, the end of
\* TargetItem and of its list, and the source list with the items left, if
\* any is left.
MovedUnderSibling ==
  LET s == pre.doc
      blockEnd == MatchClose(s, LastBlock)
      itemEnd == MatchClose(s, LastItem)
      listEnd == MatchClose(s, SourceList)
  IN SubSeq(s, 1, SourceList - 3)
       \o Node(s[SourceList], SubSeq(s, SourceList + 1, blockEnd) \o <<Close>>)
       \o SubSeq(s, blockEnd + 1, itemEnd - 1)
       \o <<Close, Close>>
       \o (IF itemEnd + 1 = listEnd THEN <<>>
           ELSE Node(s[SourceList], SubSeq(s, itemEnd + 1, listEnd - 1)))
       \o SubSeq(s, listEnd + 1, Len(s))

\* The paragraph that holds a text position, as tokens.
ParagraphAt(s, p) == NodeAt(s, resolve(s, p).path[depth(resolve(s, p))])
\* Position q of the new document is in the text that position p of the old
\* one was in, at the same offset.
SamePlace(p, q) ==
  /\ q \in TextPositions(tr.doc)
  /\ ParagraphAt(tr.doc, q) = ParagraphAt(pre.doc, p)
  /\ TextOffset(tr.doc, q) = TextOffset(pre.doc, p)

\* A task list follows a bullet list whose last item holds no list.
C11_Case ==
  /\ FromSiblingList
  /\ pre.doc[SourceList] = "tl" /\ pre.doc[TargetList] = "ul"
  /\ \A j \in TargetItem..(SourceList - 2) : ~isListNode(pre.doc[j])

\* C11 as the claim has it: the first items of a task list that follows a
\* bullet list whose last item holds no list are indented; then the last
\* child of that bullet item is a task list, which the selection is in, each
\* end in the text and at the offset it had.
C11_NewListIsLastChild ==
  C11_Case =>
    /\ result = "true"
    /\ \E l \in Lists(tr.doc) :
         /\ l = SourceList - 2 /\ tr.doc[l] = "tl"
         /\ MatchClose(tr.doc, l) + 1 = MatchClose(tr.doc, TargetItem)
    /\ SamePlace(From, Min(tr.selection.anchor, tr.selection.head))
    /\ SamePlace(To, Max(tr.selection.anchor, tr.selection.head))

\* C11 amended: the new task list follows the old content of the bullet item
\* and holds the selected items, the last of them up to the end of the block
\* with the selection end; the blocks of that item after it follow the new
\* list in the bullet item. The selection is in the new list, each end in
\* the text and at the offset it had.
C11_NewListInPreviousItem ==
  C11_Case =>
    /\ result = "true"
    /\ tr.doc = MovedUnderSibling
    /\ SamePlace(From, Min(tr.selection.anchor, tr.selection.head))
    /\ SamePlace(To, Max(tr.selection.anchor, tr.selection.head))
    /\ SourceList - 2 \in
         {resolve(tr.doc, tr.selection.anchor).path[k] :
            k \in 1..depth(resolve(tr.doc, tr.selection.anchor))}

\* C11 happens: the cursor is behind the first character of the first of two
\* paragraphs of the first task item, so the second paragraph stays behind.
C11_Witness ==
  /\ C11_Case /\ result = "true" /\ dispatched # <<>>
  /\ TextOffset(pre.doc, From) >= 1
  /\ MatchClose(pre.doc, LastBlock) + 1 < MatchClose(pre.doc, LastItem)

\* Position q of the new document is in an item of the kind, in the text
\* and at the offset that position p of the old document was in.
SameItemPlace(p, q) ==
  /\ SamePlace(p, q)
  /\ InItemText(tr.doc, q)
  /\ tr.doc[ItemOf(tr.doc, q)] = pre.doc[ItemOf(pre.doc, p)]

\* C12: after a successful indent the two ends of the new selection are in
\* the item, the text and at the offset the two ends of the old one were;
\* they are the old positions when the range did not start its list, and
\* the old positions less two when the items went under the last item of
\* the list before.
C12_SelectionFollowsItems ==
  result = "true" =>
    LET a == Min(tr.selection.anchor, tr.selection.head)
        b == Max(tr.selection.anchor, tr.selection.head)
    IN /\ SameItemPlace(From, a) /\ SameItemPlace(To, b)
       /\ PreRange.startIndex >= 1 => a = From /\ b = To
       /\ PreRange.startIndex = 0 => a = From - 2 /\ b = To - 2

\* C12 happens: a selection over two items that go under the last item of
\* the list before, a list of another type.
C12_Witness ==
  /\ result = "true" /\ dispatched # <<>> /\ FromSiblingList
  /\ LastItem # SourceList + 1
  /\ selection.anchor = From - 2 /\ selection.head = To - 2

\* C13: when the selection before a successful indent is a range, the one
\* after it is a range too, its anchor in the text and at the offset the old
\* anchor was, and its head where the old head was.
C13_RangeKeepsAnchorAndHead ==
  (result = "true" /\ ~IsCursor) =>
    /\ tr.selection.anchor # tr.selection.head
    /\ SamePlace(pre.selection.anchor, tr.selection.anchor)
    /\ SamePlace(pre.selection.head, tr.selection.head)
\* The last command was a dedent of what an indent before it had made of
\* prior.doc and dispatched: the selection the dedent started from is the
\* one the indent left, on the items it nested.
IndentThenDedent ==
  /\ command.name = "dedent"
  /\ prior.name = "indent" /\ prior.result = "true" /\ prior.hasDispatch
\* The item range of that indent.
PriorRange ==
  calculateItemRange(prior.doc,
                     resolve(prior.doc, Min(prior.selection.anchor, prior.selection.head)),
                     resolve(prior.doc, Max(prior.selection.anchor, prior.selection.head)))

\* C14 as stated: an indent followed by the dedent of the same range gives
\* back the document the indent started from.
C14_RoundTrip ==
  IndentThenDedent => result = "true" /\ tr.doc = prior.doc

\* C14, amended: the round trip gives back the document when the indented
\* range started at child index >= 1 of its list, so that its items went
\* under an item of their own list.
C14_RoundTripInOneList ==
  (IndentThenDedent /\ PriorRange.startIndex >= 1) =>
    /\ result = "true"
    /\ tr.doc = prior.doc
    /\ command.hasDispatch => doc = prior.doc

C14_Witness ==
  /\ IndentThenDedent /\ PriorRange.startIndex >= 1
  /\ PriorRange.endIndex - PriorRange.startIndex >= 2
  /\ command.hasDispatch /\ dispatched # <<>>
  /\ doc = prior.doc /\ doc # pre.doc

\* The list [item 1 [item 2], item 3] of one kind, and the flat list of it.
C15_Nested(kind) ==
  Node(kind[1], Node(kind[2], P(1) \o FlatList(kind, 1, 2)) \o Items(kind[2], 1, 3))
C15_Case ==
  /\ command.name = "dedent" /\ IsCursor
  /\ \E kind \in Kinds : pre.doc = C15_Nested(kind)
  /\ InItemText(pre.doc, From) /\ PlaceOf(pre.doc, From) = 1
  /\ ItemOf(pre.doc, From) > 2

\* C15: the dedent of the only item of the list nested in item 1 of
\* [item 1, item 3] gives the flat list [item 1, item 2, item 3]; no nested
\* list is left, the promoted item comes right after item 1, and the cursor
\* is in its text at the offset it had.
C15_SimpleDedent ==
  C15_Case =>
    /\ result = "true"
    /\ \E kind \in Kinds : pre.doc = C15_Nested(kind) /\ tr.doc = FlatList(kind, 3, 1)
    /\ tr.selection.anchor = tr.selection.head
    /\ SameItemPlace(From, tr.selection.head)
    /\ PlaceOf(tr.doc, tr.selection.head) = 2
    /\ ListOf(tr.doc, tr.selection.head) = 1

C15_Witness ==
  /\ C15_Case /\ result = "true" /\ dispatched # <<>>
  /\ TextOffset(pre.doc, From) >= 1
  /\ doc = FlatList(<<"tl", "tc">>, 3, 1)
  /\ selection = tr.selection

\* The content model of the lists, read off the tokens: the children of a
\* list are items of the list's kind, and an item holds a paragraph followed
\* by paragraphs and lists; a paragraph holds text only.
ChildTokens(s, i) == {s[j] : j \in {k \in (i + 1)..(MatchClose(s, i) - 1) :
                                     IsOpen(s[k]) /\ Len(PathTo(s, k, 1, <<>>)) = Len(PathTo(s, i, 1, <<>>)) + 1}}
ListContentModel(s) ==
  /\ s # <<>>
  /\ \A i \in 1..Len(s) :
        /\ s[i] \in {"ol", "ul"} =>
              s[i + 1] = "li" /\ ChildTokens(s, i) = {"li"}
        /\ s[i] = "tl" =>
              s[i + 1] \in {"tc", "tu"} /\ ChildTokens(s, i) \subseteq {"tc", "tu"}
        /\ isListItemNode(s[i]) =>
              s[i + 1] = "p" /\ ChildTokens(s, i) \subseteq {"p", "ol", "ul", "tl"}
        /\ s[i] = "p" => \A j \in (i + 1)..(MatchClose(s, i) - 1) : IsChar(s[j])
        /\ (IsOpen(s[i]) /\ Len(PathTo(s, i, 1, <<>>)) = 1) => s[i] \in {"p", "ol", "ul", "tl"}
\* The documents of the transaction: the one before each step and the last.
DocsOf(t) == {t.docs[k] : k \in 1..Len(t.docs)} \cup {t.doc}

\* C16: after a successful indent the document is well-formed (the children
\* of every list are list items, every item has valid block content), and so
\* is the document before and after each step of the transaction.
C16_StepsKeepDocumentValid ==
  result = "true" =>
    \A d \in DocsOf(tr) : ListContentModel(d) /\ check(Node("doc", d))

C16_Witness ==
  /\ result = "true" /\ Len(tr.docs) = 2 /\ dispatched # <<>>
  /\ tr.docs[1] = pre.doc /\ tr.docs[2] # tr.doc /\ tr.docs[2] # pre.doc
  /\ Len(tr.docs[2]) < Len(pre.doc)
  /\ \E i \in 1..Len(tr.doc) : tr.doc[i] = "tl"

\* C17: the indent command calls dispatch once, with the transaction
\* scrolled into view, when indentList returned true and a dispatch callback
\* was given, and the transaction becomes the editor's state; it does not
\* call dispatch when indentList returned false, or without a callback; and
\* it returns true whether indentList returned true or false.
C17_DispatchOnceIfApplied ==
  command.name = "indent" =>
    /\ (result = "true" /\ command.hasDispatch) =>
          dispatched = <<"scrollIntoView">> /\ doc = tr.doc /\ selection = tr.selection
    /\ (result = "false" \/ ~command.hasDispatch) =>
          dispatched = <<>> /\ doc = pre.doc /\ selection = pre.selection
    /\ result \in {"true", "false"} => returned = "true"

C17_Witness ==
  /\ command.name = "indent" /\ command.hasDispatch
  /\ result = "false" /\ returned = "true" /\ dispatched = <<>>
  /\ prior.name = "indent" /\ prior.result = "true" /\ prior.hasDispatch
  /\ doc # prior.doc

\* The opening token of the node that ends right before token i.
NodeEndingBefore(s, i) == CHOOSE n \in 1..Len(s) : IsOpen(s[n]) /\ MatchClose(s, n) = i - 1
\* The list of the range is the first child of its parent.
IsFirstChild(s, i) == i = 1 \/ IsOpen(s[i - 1])
\* The previous item found is the node that starts at token i.
FoundAt(i) ==
  /\ PrePrevious.found
  /\ PrePrevious.previousItem = NodeAt(pre.doc, i)
  /\ PrePrevious.previousItemStart = i
  /\ result # "false"

\* C18: for a range that starts at index >= 1 the previous item is the item
\* that ends right before the range, in the same list; for a range that
\* starts at index 0 it is the last child of the node right before the list,
\* and indentList returns false when the list is the first child of its
\* parent, when the node before it is not a list, or when that node's last
\* child is not a list item.
C18_PreviousItemChoice ==
  (Ran /\ PreRange.found) =>
    IF PreRange.startIndex >= 1
      THEN /\ FoundAt(NodeEndingBefore(pre.doc, PreRange.start + 1))
           /\ PrePrevious.sameList
           /\ isListItemNode(pre.doc[NodeEndingBefore(pre.doc, PreRange.start + 1)])
    ELSE IF IsFirstChild(pre.doc, SourceList) THEN result = "false"
    ELSE IF ~isListNode(pre.doc[NodeEndingBefore(pre.doc, SourceList)]) THEN result = "false"
    ELSE IF ~isListItemNode(pre.doc[NodeEndingBefore(pre.doc, SourceList - 1)])
      THEN result = "false"
    ELSE /\ FoundAt(NodeEndingBefore(pre.doc, SourceList - 1))
         /\ ~PrePrevious.sameList
         /\ PrePrevious.previousList = NodeAt(pre.doc, NodeEndingBefore(pre.doc, SourceList))

\* A range at index 0 of a list that follows a list of two items: the
\* previous item is the second of them.
C18_Witness ==
  /\ Ran /\ PreRange.found /\ PreRange.startIndex = 0
  /\ ~IsFirstChild(pre.doc, SourceList)
  /\ isListNode(pre.doc[NodeEndingBefore(pre.doc, SourceList)])
  /\ result = "true" /\ dispatched # <<>>
  /\ PrePrevious.previousItemStart > PrePrevious.previousListStart + 1
  /\ PrePrevious.previousItem = NodeAt(pre.doc, PrePrevious.previousItemStart)

C19_Case ==
  /\ FromSiblingList
  /\ NodeType(pre.doc[TargetList]) = NodeType(pre.doc[SourceList])

\* C19: a range at index 0 of a list that follows a list of the same type is
\* indented: indentList returns true, the document is valid, and the
\* selected items are the content of a new list of that type at the end of
\* the last item of the preceding list.
C19_SameTypeSiblingIndents ==
  C19_Case =>
    /\ result = "true"
    /\ check(Node("doc", tr.doc))
    /\ Len(tr.doc) >= PreRange.end
    /\ SubSeq(tr.doc, 1, SourceList - 3) = SubSeq(pre.doc, 1, SourceList - 3)
    /\ tr.doc[SourceList - 2] = pre.doc[SourceList]
    /\ SubSeq(tr.doc, SourceList - 1, PreRange.end - 2)
         = SubSeq(pre.doc, PreRange.start + 1, PreRange.end)

\* The parts of the rebuilt previous item, read off the tokens of the
\* document before: the items of the range up to the end of the block that
\* holds the end of the selection (the last item closed there), and the
\* blocks of that item that follow.
SelectedPart == SubSeq(pre.doc, SourceList + 1, MatchClose(pre.doc, LastBlock)) \o <<Close>>
Remainder == SubSeq(pre.doc, MatchClose(pre.doc, LastBlock) + 1, MatchClose(pre.doc, LastItem) - 1)
\* What is left of the list the range came from.
LeftOfSourceList ==
  IF MatchClose(pre.doc, LastItem) + 1 = MatchClose(pre.doc, SourceList) THEN <<>>
  ELSE Node(pre.doc[SourceList],
            SubSeq(pre.doc, MatchClose(pre.doc, LastItem) + 1,
                   MatchClose(pre.doc, SourceList) - 1))

\* C20: on the cross-type path the previous item afterwards holds its old
\* content, then one new list of the type of the selected list with the
\* selected part, then the remainder beside that list; the range is gone
\* from its old place, where only the unselected items of the list are left.
C20_RebuiltPreviousItem ==
  (Ran /\ CrossTypePath /\ result = "true") =>
    /\ NodeAt(tr.doc, TargetItem)
         = Node(pre.doc[TargetItem],
                Content(NodeAt(pre.doc, TargetItem))
                  \o Node(pre.doc[SourceList], SelectedPart) \o Remainder)
    /\ SubSeq(tr.doc, 1, TargetItem - 1) = SubSeq(pre.doc, 1, TargetItem - 1)
    /\ SubSeq(tr.doc, MatchClose(tr.doc, TargetItem) + 1, Len(tr.doc))
         = <<Close>> \o LeftOfSourceList
             \o SubSeq(pre.doc, MatchClose(pre.doc, SourceList) + 1, Len(pre.doc))

C20_Witness ==
  /\ Ran /\ CrossTypePath /\ result = "true" /\ dispatched # <<>>
  /\ Remainder # <<>> /\ LeftOfSourceList # <<>>
  /\ pre.doc[SourceList] = "ol" /\ pre.doc[TargetList] = "tl"
  /\ ~IsCursor /\ TextOffset(pre.doc, To) >= 1

RECURSIVE TextBlocksFrom(_, _)
\* The texts of the paragraphs from token i on, in document order.
TextBlocksFrom(s, i) ==
  IF i > Len(s) THEN <<>>
  ELSE IF s[i] = "p"
    THEN <<SubSeq(s, i + 1, MatchClose(s, i) - 1)>> \o TextBlocksFrom(s, MatchClose(s, i) + 1)
  ELSE TextBlocksFrom(s, i + 1)
TextBlocks(s) == TextBlocksFrom(s, 1)

\* C22: a successful indent keeps the leaf content: the texts of the
\* paragraphs, read in document order, are the same before and after; no
\* text is added, dropped, duplicated or moved past another.
C22_ContentConserved ==
  result = "true" => TextBlocks(tr.doc) = TextBlocks(pre.doc)

\* A cross-type indent of a task item whose second paragraph stays behind.
C22_Witness ==
  /\ result = "true" /\ dispatched # <<>> /\ CrossTypePath
  /\ Remainder # <<>>
  /\ pre.doc[SourceList] = "tl" /\ pre.doc[TargetList] = "ol"
  /\ Len(TextBlocks(doc)) = 4 /\ doc # pre.doc

\* The opening token of the previous item, read off the tokens: the item
\* that ends right before the range, or the last item of the list that ends
\* right before the list of the range.
FramePrevious ==
  IF PreRange.startIndex >= 1 THEN NodeEndingBefore(pre.doc, PreRange.start + 1)
  ELSE NodeEndingBefore(pre.doc, SourceList - 1)
\* The number of tokens after the selected range.
AfterRange == Len(pre.doc) - PreRange.end
\* The nesting level at a position.
LevelAt(s, pos) == Len(PathTo(s, pos, 1, <<>>))

\* C23: a successful indent leaves everything before the previous item as
\* it was, and the content the previous item had; everything after the
\* selected range (the following items of the list, the paragraphs after
\* the list) is unchanged in content and at the nesting level it had.
C23_Frame ==
  result = "true" =>
    /\ SubSeq(tr.doc, 1, MatchClose(pre.doc, FramePrevious) - 1)
         = SubSeq(pre.doc, 1, MatchClose(pre.doc, FramePrevious) - 1)
    /\ Len(tr.doc) >= AfterRange
    /\ SubSeq(tr.doc, Len(tr.doc) - AfterRange + 1, Len(tr.doc))
         = SubSeq(pre.doc, PreRange.end + 1, Len(pre.doc))
    /\ LevelAt(tr.doc, Len(tr.doc) - AfterRange) = LevelAt(pre.doc, PreRange.end)

\* The list between two paragraphs, with an item after the indented one.
C23_Witness ==
  /\ result = "true" /\ dispatched # <<>>
  /\ pre.doc[1] = "p" /\ pre.doc[Len(pre.doc) - 1] # Close
  /\ isListItemNode(pre.doc[PreRange.end + 1])
  /\ FramePrevious > 3 /\ pre.doc[FramePrevious - 1] \in ListTypes
  /\ doc # pre.doc

====
